---- MODULE Spec2Model ----
(***************************************************************************)
(* Model of the simple tiled wave-function-collapse solver                 *)
(* (src/src/lib.rs, model::SimpleTiled).                                   *)
(*                                                                         *)
(* Variants, cells and directions are 0-based as in the source; the tile   *)
(* list and the neighbor list of a Config are 1-based sequences.           *)
(* Weights are positive integers (the f64 arithmetic on them is exact).    *)
(* A draw rng.gen::<f64>() in [0,1) is the rational k / RDen, 0 <= k <     *)
(* RDen, so that the draw 0.0 is among the values tried.                   *)
(***************************************************************************)
EXTENDS Integers, Sequences, FiniteSets, TLC

\* ------------------------------------------------------------------ bounds
MaxW == 4
MaxH == 2
MaxCells == 4
MaxLimit == 5
RDen == 3
NoiseLevels == 2

\* --------------------------------------------------------- program constants
n == 1
OPPOSITE == <<2, 3, 0, 1>>
DX == <<-1, 0, 1, 0>>
DY == <<0, 1, 0, -1>>
Dirs == 0 .. 3
None == -1

Opp(d) == OPPOSITE[d + 1]

\* ------------------------------------------------- tile expansion (new)
\* Symmetry letters; "S" stands for the backslash class, "X" for any other.
cardinality(sym) ==
  CASE sym = "L" -> 4
    [] sym = "T" -> 4
    [] sym = "I" -> 2
    [] sym = "S" -> 2
    [] sym = "F" -> 8
    [] OTHER -> 1

\* the closure a of the match arm: rotation of the local variant i
RotA(sym, i) ==
  CASE sym = "L" -> (i + 1) % 4
    [] sym = "T" -> (i + 1) % 4
    [] sym = "I" -> 1 - i
    [] sym = "S" -> 1 - i
    [] sym = "F" -> IF i < 4 THEN (i + 1) % 4 ELSE 4 + ((i - 1) % 4)
    [] OTHER -> i

\* the closure b of the match arm: reflection of the local variant i
ReflB(sym, i) ==
  CASE sym = "L" -> IF i % 2 = 0 THEN i + 1 ELSE i - 1
    [] sym = "T" -> IF i % 2 = 0 THEN i ELSE 4 - i
    [] sym = "I" -> i
    [] sym = "S" -> 1 - i
    [] sym = "F" -> IF i < 4 THEN i + 4 ELSE i - 4
    [] OTHER -> i

RECURSIVE FirstOccurence(_, _)
\* base variant index of the k-th tile (action.len() when the tile is reached)
FirstOccurence(tiles, k) ==
  IF k = 1 THEN 0
  ELSE FirstOccurence(tiles, k - 1) + cardinality(tiles[k - 1].symmetry)

NumTiles(tiles) == FirstOccurence(tiles, Len(tiles) + 1)

\* index of the tile whose block holds the variant g
TileOf(tiles, g) ==
  CHOOSE k \in 1 .. Len(tiles) :
    /\ FirstOccurence(tiles, k) <= g
    /\ g < FirstOccurence(tiles, k) + cardinality(tiles[k].symmetry)

\* map[index] for the local variant i of a tile with block base t
ActionRow(sym, i, t) ==
  << i + t,
     RotA(sym, i) + t,
     RotA(sym, RotA(sym, i)) + t,
     RotA(sym, RotA(sym, RotA(sym, i))) + t,
     ReflB(sym, i) + t,
     ReflB(sym, RotA(sym, i)) + t,
     ReflB(sym, RotA(sym, RotA(sym, i))) + t,
     ReflB(sym, RotA(sym, RotA(sym, RotA(sym, i)))) + t >>

\* the action table: Action(tiles)[g][k + 1] is action[g][k]
Action(tiles) ==
  [g \in 0 .. NumTiles(tiles) - 1 |->
     LET k == TileOf(tiles, g)
         t == FirstOccurence(tiles, k)
     IN  ActionRow(tiles[k].symmetry, g - t, t)]

\* tiles[g].weight: every variant of a tile carries the tile's weight
Weights(tiles) ==
  [g \in 0 .. NumTiles(tiles) - 1 |-> tiles[TileOf(tiles, g)].weight]

\* mutant: only the declared pair is recorded, without its images under
\* the symmetries
NeighborEntries_DeclaredOnly(tiles, nb) ==
  LET action == Action(tiles)
      A(t, k) == action[t][k + 1]
      left == A(FirstOccurence(tiles, nb.left[1]), nb.left[2])
      right == A(FirstOccurence(tiles, nb.right[1]), nb.right[2])
  IN  { <<0, right, left>>, <<1, A(right, 1), A(left, 1)>> }

\* the entries one neighbor pair sets in dense_propagater: <<d, t1, t2>>
\* stands for dense_propagater[d][t1][t2] = true
NeighborEntries(tiles, nb) ==
  LET action == Action(tiles)
      A(t, k) == action[t][k + 1]
      left == A(FirstOccurence(tiles, nb.left[1]), nb.left[2])
      down == A(left, 1)
      right == A(FirstOccurence(tiles, nb.right[1]), nb.right[2])
      up == A(right, 1)
  IN  { <<0, right, left>>,
        <<0, A(right, 6), A(left, 6)>>,
        <<0, A(left, 4), A(right, 4)>>,
        <<0, A(left, 2), A(right, 2)>>,
        <<1, up, down>>,
        <<1, A(down, 6), A(up, 6)>>,
        <<1, A(up, 4), A(down, 4)>>,
        <<1, A(down, 2), A(up, 2)>> }

\* mutant: directions 2 and 3 copy directions 0 and 1 without transposing
DensePropagator_NoTranspose(config) ==
  LET base == UNION { NeighborEntries(config.tiles, config.neighbors[k]) :
                        k \in 1 .. Len(config.neighbors) }
  IN  base \cup { <<2, e[2], e[3]>> : e \in { f \in base : f[1] = 0 } }
           \cup { <<3, e[2], e[3]>> : e \in { f \in base : f[1] = 1 } }

\* dense_propagater after the loops over the neighbors and over (t2, t1)
DensePropagator(config) ==
  LET base == UNION { NeighborEntries(config.tiles, config.neighbors[k]) :
                        k \in 1 .. Len(config.neighbors) }
  IN  base \cup { <<2, e[3], e[2]>> : e \in { f \in base : f[1] = 0 } }
           \cup { <<3, e[3], e[2]>> : e \in { f \in base : f[1] = 1 } }

\* propagator[d][t1]: the t2 with dense_propagater[d][t1][t2], kept as a set
\* and always traversed in ascending order, the order of the sparse list
BuildPropagator(config) ==
  LET dense == DensePropagator(config)
      T == NumTiles(config.tiles)
  IN  [d \in Dirs |-> [t1 \in 0 .. T - 1 |->
         { t2 \in 0 .. T - 1 : <<d, t1, t2>> \in dense }]]

\* ------------------------------------------------------- configurations
Tile(sym, w) == [symmetry |-> sym, weight |-> w]
\* a neighbor pair: each side is <<tile index in the tile list, orientation>>
Pair(lt, lo, rt, ro) == [left |-> <<lt, lo>>, right |-> <<rt, ro>>]

\* S1: one tile of cardinality 1, {A, A}
CfgS1 == [tiles |-> <<Tile("X", 1)>>, neighbors |-> <<Pair(1, 0, 1, 0)>>]
\* S2: two symmetry-I tiles, {A, B} and {B 1, A 1}
CfgS2 == [tiles |-> <<Tile("I", 1), Tile("I", 1)>>,
          neighbors |-> <<Pair(1, 0, 2, 0), Pair(2, 1, 1, 1)>>]
\* S3: two symmetry-X tiles, {A, B} only
CfgS3 == [tiles |-> <<Tile("X", 1), Tile("X", 1)>>,
          neighbors |-> <<Pair(1, 0, 2, 0)>>]
\* three symmetry-X tiles, {A, B} only: C has no neighbor in any direction
CfgWarn == [tiles |-> <<Tile("X", 1), Tile("X", 1), Tile("X", 1)>>,
            neighbors |-> <<Pair(1, 0, 2, 0)>>]
\* S4: one symmetry-L tile of weight 2, {A, A 1}
CfgL == [tiles |-> <<Tile("L", 2)>>, neighbors |-> <<Pair(1, 0, 1, 1)>>]
\* two weighted symmetry-X tiles, every pair allowed
CfgFree == [tiles |-> <<Tile("X", 2), Tile("X", 1)>>,
            neighbors |-> <<Pair(1, 0, 1, 0), Pair(1, 0, 2, 0), Pair(2, 0, 2, 0)>>]

\* three symmetry-X tiles, {A, B}, {B, C} and {C, A}: no tile beside itself
CfgTri == [tiles |-> <<Tile("X", 1), Tile("X", 1), Tile("X", 1)>>,
           neighbors |-> <<Pair(1, 0, 2, 0), Pair(2, 0, 3, 0), Pair(3, 0, 1, 0)>>]

Configs == {CfgS1, CfgS2, CfgS3, CfgWarn, CfgL, CfgFree, CfgTri}

\* three symmetry-X tiles, {A, B}, {B, B}, {B, C} and {C, C}: A forces B
\* beside it, B allows every tile beside it
CfgChain == [tiles |-> <<Tile("X", 1), Tile("X", 1), Tile("X", 1)>>,
             neighbors |-> <<Pair(1, 0, 2, 0), Pair(2, 0, 2, 0),
                             Pair(2, 0, 3, 0), Pair(3, 0, 3, 0)>>]

\* the symmetry classes of the match in new; "S" is the backslash class
SymClasses == {"L", "T", "I", "S", "F", "X"}
\* the orientations a neighbor entry may name: the columns of an action row
Orientations == 0 .. 7

\* one tile of each symmetry class beside itself, in every pair of
\* orientations
OneTileConfigs ==
  { [tiles |-> <<Tile(sym, 1)>>, neighbors |-> <<Pair(1, o1, 1, o2)>>] :
      sym \in SymClasses, o1 \in Orientations, o2 \in Orientations }

\* two tiles of different symmetry classes, the first left of the second
TwoTileConfigs ==
  { [tiles |-> <<Tile(ss[1], 1), Tile(ss[2], 1)>>,
     neighbors |-> <<Pair(1, o1, 2, o2)>>] :
      ss \in {<<"L", "T">>, <<"F", "I">>, <<"S", "X">>},
      o1 \in 0 .. 3, o2 \in 0 .. 3 }

SymConfigs == OneTileConfigs \cup TwoTileConfigs
Heuristics == {"Entropy", "MRV", "ScanLine"}

\* --------------------------------------------------------------- state
VARIABLES
  config,        \* the Config the solver was constructed from
  weight,        \* tiles[t].weight
  propagator, num_tiles, width, height, periodic, heuristic,
  wave, compatible, observed, stack, observed_so_far,
  sums_of_ones, sums_of_weights, sums_of_weight_log_weights,
  weight_log_weights,
  pc,            \* position of the caller in run: "new", "loop", "propagate", "done"
  limit, iter,   \* run's limit argument and the iterations of 0..limit started
  returned,      \* the value run returned (meaningful when pc = "done")
  exit,          \* the return statement run left by: "sweep", "limit",
                 \* "propagate"; "none" while it has not returned
  ban_calls,     \* history: number of ban calls in this run
  bad_bans,      \* history: number of ban calls made with wave[i][t] = false
  observe_calls, \* history: number of observe calls in this run
  node,          \* run's local node: the cell last selected (None before)
  r,             \* observe's local r: the index last sampled (None before)
  cleared_from   \* history: while the solver is in the state clear() left,
                 \* how the state clear() ran on was reached ("fresh", or
                 \* the exit of the run before); "none" in every other state

vars == << config, weight, propagator, num_tiles, width, height, periodic,
           heuristic, wave, compatible, observed, stack, observed_so_far,
           sums_of_ones, sums_of_weights, sums_of_weight_log_weights,
           weight_log_weights, pc, limit, iter, returned, exit, ban_calls,
           bad_bans,
           observe_calls, node, r, cleared_from >>

params == << config, weight, propagator, num_tiles, width, height, periodic,
             heuristic, weight_log_weights >>

Cells == 0 .. width * height - 1
Variants == 0 .. num_tiles - 1

\* w * ln(w) in thousandths, for the integer weights of the configurations
WLogW(w) ==
  CASE w = 1 -> 0
    [] w = 2 -> 1386
    [] w = 3 -> 3296

RECURSIVE SumOver(_, _)
\* sum of f[t] for t in 0 .. k
SumOver(f, k) == IF k < 0 THEN 0 ELSE f[k] + SumOver(f, k - 1)

\* the mutable part of the solver, as a record the helpers transform
Solver ==
  [ wave |-> wave, compatible |-> compatible, stack |-> stack,
    sums_of_ones |-> sums_of_ones, sums_of_weights |-> sums_of_weights,
    sums_of_weight_log_weights |-> sums_of_weight_log_weights,
    ban_calls |-> ban_calls, bad_bans |-> bad_bans ]

Store(s) ==
  /\ wave' = s.wave
  /\ compatible' = s.compatible
  /\ stack' = s.stack
  /\ sums_of_ones' = s.sums_of_ones
  /\ sums_of_weights' = s.sums_of_weights
  /\ sums_of_weight_log_weights' = s.sums_of_weight_log_weights
  /\ ban_calls' = s.ban_calls
  /\ bad_bans' = s.bad_bans

\* ------------------------------------------------------------------ new
\* the solver new(config, w, h, p, hr) returns
InitFor(c, w, h, p, hr) ==
    /\ config = c
    /\ weight = Weights(c.tiles)
    /\ propagator = BuildPropagator(c)
    /\ num_tiles = NumTiles(c.tiles)
    /\ width = w
    /\ height = h
    /\ periodic = p
    /\ heuristic = hr
    /\ wave = [i \in 0 .. w * h - 1 |-> [t \in 0 .. NumTiles(c.tiles) - 1 |-> TRUE]]
    /\ compatible = [i \in 0 .. w * h - 1 |->
                       [t \in 0 .. NumTiles(c.tiles) - 1 |-> [d \in Dirs |-> 0]]]
    /\ observed = [i \in 0 .. w * h - 1 |-> None]
    /\ stack = << >>
    /\ observed_so_far = 0
    /\ sums_of_ones = [i \in 0 .. w * h - 1 |-> 0]
    /\ sums_of_weights = [i \in 0 .. w * h - 1 |-> 0]
    /\ sums_of_weight_log_weights = [i \in 0 .. w * h - 1 |-> 0]
    /\ weight_log_weights = [t \in 0 .. NumTiles(c.tiles) - 1 |-> 0]
    /\ pc = "new"
    /\ limit = 0
    /\ iter = 0
    /\ returned = FALSE
    /\ exit = "none"
    /\ ban_calls = 0
    /\ bad_bans = 0
    /\ observe_calls = 0
    /\ node = None
    /\ r = None
    /\ cleared_from = "none"

Init ==
  \E c \in Configs, w \in 1 .. MaxW, h \in 1 .. MaxH,
     p \in BOOLEAN, hr \in Heuristics :
    /\ w * h <= MaxCells
    /\ InitFor(c, w, h, p, hr)

\* new with the ScanLine heuristic, CfgChain among the configurations
InitScan ==
  \E c \in Configs \cup {CfgChain}, w \in 1 .. MaxW, h \in 1 .. MaxH,
     p \in BOOLEAN :
    /\ w * h <= MaxCells
    /\ InitFor(c, w, h, p, "ScanLine")

\* new over the configurations of every symmetry class, on one cell
InitNew ==
  \E c \in SymConfigs, p \in BOOLEAN : InitFor(c, 1, 1, p, "ScanLine")

\* ---------------------------------------------------------------- clear
sum_of_weights == SumOver(weight, num_tiles - 1)
sum_of_weight_log_weights ==
  SumOver([t \in Variants |-> WLogW(weight[t])], num_tiles - 1)

\* mutant: the counters are initialised from propagator[d], not from
\* propagator[OPPOSITE[d]]
Clear_SameDirection(s) ==
  [s EXCEPT
     !.wave = [i \in Cells |-> [t \in Variants |-> TRUE]],
     !.compatible = [i \in Cells |-> [t \in Variants |->
                       [d \in Dirs |-> Cardinality(propagator[d][t])]]],
     !.sums_of_ones = [i \in Cells |-> num_tiles],
     !.sums_of_weights = [i \in Cells |-> sum_of_weights],
     !.sums_of_weight_log_weights = [i \in Cells |-> sum_of_weight_log_weights]]

\* mutant: clear() does not refill the wave
Clear_KeepWave(s) ==
  [s EXCEPT
     !.compatible = [i \in Cells |-> [t \in Variants |->
                       [d \in Dirs |-> Cardinality(propagator[Opp(d)][t])]]],
     !.sums_of_ones = [i \in Cells |-> num_tiles],
     !.sums_of_weights = [i \in Cells |-> sum_of_weights],
     !.sums_of_weight_log_weights = [i \in Cells |-> sum_of_weight_log_weights]]

\* the state clear() leaves; the stack is not touched
Clear(s) ==
  [s EXCEPT
     !.wave = [i \in Cells |-> [t \in Variants |-> TRUE]],
     !.compatible = [i \in Cells |-> [t \in Variants |->
                       [d \in Dirs |-> Cardinality(propagator[Opp(d)][t])]]],
     !.sums_of_ones = [i \in Cells |-> num_tiles],
     !.sums_of_weights = [i \in Cells |-> sum_of_weights],
     !.sums_of_weight_log_weights = [i \in Cells |-> sum_of_weight_log_weights]]

\* mutant: ban leaves the counters of the banned variant as they are
Ban_KeepCounters(s, i, t) ==
  [s EXCEPT
     !.wave[i][t] = FALSE,
     !.stack = Append(@, <<i, t>>),
     !.sums_of_ones[i] = @ - 1,
     !.sums_of_weights[i] = @ - weight[t],
     !.sums_of_weight_log_weights[i] = @ - weight_log_weights[t],
     !.ban_calls = @ + 1,
     !.bad_bans = IF s.wave[i][t] THEN @ ELSE @ + 1]

\* ------------------------------------------------------------------ ban
Ban(s, i, t) ==
  [s EXCEPT
     !.wave[i][t] = FALSE,
     !.compatible[i][t] = [d \in Dirs |-> 0],
     !.stack = Append(@, <<i, t>>),
     !.sums_of_ones[i] = @ - 1,
     !.sums_of_weights[i] = @ - weight[t],
     !.sums_of_weight_log_weights[i] = @ - weight_log_weights[t],
     !.ban_calls = @ + 1,
     !.bad_bans = IF s.wave[i][t] THEN @ ELSE @ + 1]

RECURSIVE BanEach(_, _, _, _)
\* ban(i, t) for each t of ts, in ascending order from t
BanEach(s, i, ts, t) ==
  IF t >= num_tiles THEN s
  ELSE BanEach(IF t \in ts THEN Ban(s, i, t) ELSE s, i, ts, t + 1)

\* ------------------------------------------------- next_unobserved_node
\* mutant: the footprint test skips the last column and the last row
Skipped_LastRowColumn(i) ==
  /\ ~periodic
  /\ \/ (i % width) + n >= width
     \/ (i \div width) + n >= height

\* the footprint test both heuristics branches apply to a cell
Skipped(i) ==
  /\ ~periodic
  /\ \/ (i % width) + n > width
     \/ (i \div width) + n > height

\* mutant: the last candidate is returned instead of the first
ScanLineNode_Greatest(s) ==
  LET cand == { i \in Cells : /\ i >= observed_so_far
                              /\ ~Skipped(i)
                              /\ s.sums_of_ones[i] > 1 }
  IN  IF cand = {} THEN None
      ELSE CHOOSE i \in cand : \A j \in cand : i >= j

\* mutant: a cell with a single live variant is selected too
ScanLineNode_AnyLive(s) ==
  LET cand == { i \in Cells : /\ i >= observed_so_far
                              /\ ~Skipped(i)
                              /\ s.sums_of_ones[i] > 0 }
  IN  IF cand = {} THEN None
      ELSE CHOOSE i \in cand : \A j \in cand : i <= j

\* ScanLine branch: the first cell at or after observed_so_far that is not
\* skipped and has more than one live variant, or None
ScanLineNode(s) ==
  LET cand == { i \in Cells : /\ i >= observed_so_far
                              /\ ~Skipped(i)
                              /\ s.sums_of_ones[i] > 1 }
  IN  IF cand = {} THEN None
      ELSE CHOOSE i \in cand : \A j \in cand : i <= j

MinInit == 10000

\* The value ranked by the Entropy/MRV branch.  entropies[i] is
\* ln(S) - L / S with S = sums_of_weights[i] and L =
\* sums_of_weight_log_weights[i]; ban subtracts weight_log_weights[t] = 0
\* from L, so L is the same non-negative number at every cell and
\* entropies[i] is strictly increasing in S.  The integer S therefore
\* orders the entropies as the floats do, and two different values differ
\* by more than the largest noise, 0.000001.
Rank(s, i) ==
  IF heuristic = "Entropy" THEN s.sums_of_weights[i] ELSE s.sums_of_ones[i]

RECURSIVE ArgMin(_, _, _, _, _)
\* the loop over sums_of_ones from cell i on; min is <<value, noise>>,
\* noise[i] in 0 .. NoiseLevels - 1 is the draw made for cell i
ArgMin(s, i, min, argmin, noise) ==
  IF i >= width * height THEN argmin
  ELSE IF Skipped(i) THEN ArgMin(s, i + 1, min, argmin, noise)
  ELSE LET entropy == Rank(s, i)
           below == \/ entropy < min[1]
                    \/ entropy = min[1] /\ noise[i] < min[2]
       IN  IF s.sums_of_ones[i] > 1 /\ entropy <= min[1] /\ below
           THEN ArgMin(s, i + 1, <<entropy, noise[i]>>, i, noise)
           ELSE ArgMin(s, i + 1, min, argmin, noise)

NextUnobservedNode(s, noise) ==
  IF heuristic = "ScanLine" THEN ScanLineNode(s)
  ELSE ArgMin(s, 0, <<MinInit, 0>>, None, noise)

\* the cells the Entropy/MRV loop may draw a noise for
Drawn == { i \in Cells : ~Skipped(i) /\ sums_of_ones[i] > 1 }

\* the results next_unobserved_node can give in the current state, over
\* the noise the generator can draw
Selectable ==
  IF heuristic = "ScanLine" THEN {ScanLineNode(Solver)}
  ELSE { NextUnobservedNode(Solver, noise) :
           noise \in [Drawn -> 0 .. NoiseLevels - 1] }

\* ------------------------------------------- observe, random_from_distr
\* random_from_distr(weights, k / RDen): the least index whose partial sum
\* reaches the threshold (k / RDen) * sum, else 0
RandomFromDistr(weights, k) ==
  LET sum == SumOver(weights, num_tiles - 1)
      hit == { i \in Variants : SumOver(weights, i) * RDen >= k * sum }
  IN  IF hit = {} THEN 0 ELSE CHOOSE i \in hit : \A j \in hit : i <= j

\* the index observe samples at cell nd with the draw k / RDen
Sample(s, nd, k) ==
  RandomFromDistr([t \in Variants |-> IF s.wave[nd][t] THEN weight[t] ELSE 0], k)

\* mutant: observe bans nothing
Observe_NoBan(s, nd, x) == s

\* observe(node) once the sampler returned x
Observe(s, nd, x) ==
  BanEach(s, nd, { t \in Variants : s.wave[nd][t] # (t = x) }, 0)

\* ------------------------------------------------------------ propagate
\* mutant: the periodic wrap is missing, every grid is cut at its border
Neighbor_NoWrap(i1, d) ==
  LET x2 == (i1 % width) + DX[d + 1]
      y2 == (i1 \div width) + DY[d + 1]
  IN  IF x2 < 0 \/ y2 < 0 \/ x2 + n > width \/ y2 + n > height
      THEN None
      ELSE x2 + y2 * width

\* the cell i2 the loop body reaches from i1 in direction d, or None when
\* the non-periodic test skips the direction
Neighbor(i1, d) ==
  LET x1 == i1 % width
      y1 == i1 \div width
      x2 == x1 + DX[d + 1]
      y2 == y1 + DY[d + 1]
      wx == IF x2 < 0 THEN x2 + width ELSE IF x2 >= width THEN x2 - width ELSE x2
      wy == IF y2 < 0 THEN y2 + height ELSE IF y2 >= height THEN y2 - height ELSE y2
  IN  IF ~periodic /\ (x2 < 0 \/ y2 < 0 \/ x2 + n > width \/ y2 + n > height)
      THEN None
      ELSE wx + wy * width

\* the test that puts t2 on ban_list after its counter was decremented
BanListed(c) == c = 0

\* one direction d of the loop body for the popped (i1, t1)
PropagateDir(s, i1, t1, d) ==
  LET i2 == Neighbor(i1, d)
      P == propagator[d][t1]
      s1 == [s EXCEPT !.compatible[i2] =
               [t2 \in Variants |->
                  IF t2 \in P THEN [@[t2] EXCEPT ![d] = @ - 1] ELSE @[t2]]]
      ban_list == { t2 \in P : BanListed(s1.compatible[i2][t2][d]) }
  IN  IF i2 = None THEN s ELSE BanEach(s1, i2, ban_list, 0)

\* one iteration of the while loop: pop (i1, t1), then d = 0, 1, 2, 3
PropagatePop(s) ==
  LET top == s.stack[Len(s.stack)]
      s0 == [s EXCEPT !.stack = SubSeq(@, 1, Len(@) - 1)]
  IN  PropagateDir(PropagateDir(PropagateDir(PropagateDir(
        s0, top[1], top[2], 0), top[1], top[2], 1), top[1], top[2], 2),
        top[1], top[2], 3)

\* the value propagate returns once the stack is empty
PropagateResult == sums_of_ones[0] > 0

\* ------------------------------------------------------------------ run
\* the sweep that fills observed when no node is left
Sweep ==
  [i \in Cells |->
     LET live == { t \in Variants : wave[i][t] }
     IN  IF live = {} THEN observed[i]
         ELSE CHOOSE t \in live : \A u \in live : t <= u]

\* mutant: the polarity of the final test is inverted
SweepResult_AnyNone(obs) == \E i \in Cells : obs[i] = None

\* the value run returns after the sweep left observed as obs
SweepResult(obs) == ~(\E i \in Cells : obs[i] = None)

\* run(seed, limit) is called: clear()
RunClear ==
  /\ pc \in {"new", "done"}
  /\ \E l \in 0 .. MaxLimit : limit' = l
  /\ Store([Clear(Solver) EXCEPT !.ban_calls = 0, !.bad_bans = 0])
  /\ observed' = [i \in Cells |-> None]
  /\ observed_so_far' = 0
  /\ iter' = 0
  /\ pc' = "loop"
  /\ observe_calls' = 0
  /\ node' = None
  /\ r' = None
  /\ returned' = FALSE
  /\ exit' = "none"
  /\ cleared_from' = IF pc = "new" THEN "fresh" ELSE exit
  /\ UNCHANGED params

\* mutant: a run that used up its limit reports failure
LimitExhausted_ReturnsFalse ==
  /\ pc = "loop"
  /\ iter = limit
  /\ pc' = "done"
  /\ returned' = FALSE
  /\ exit' = "limit"
  /\ cleared_from' = "none"
  /\ UNCHANGED << params, wave, compatible, observed, stack, observed_so_far,
                  sums_of_ones, sums_of_weights, sums_of_weight_log_weights,
                  limit, iter, ban_calls, bad_bans, observe_calls, node, r >>

\* the for loop ran limit times: run returns true
LimitExhausted ==
  /\ pc = "loop"
  /\ iter = limit
  /\ pc' = "done"
  /\ returned' = TRUE
  /\ exit' = "limit"
  /\ cleared_from' = "none"
  /\ UNCHANGED << params, wave, compatible, observed, stack, observed_so_far,
                  sums_of_ones, sums_of_weights, sums_of_weight_log_weights,
                  limit, iter, ban_calls, bad_bans, observe_calls, node, r >>

\* next_unobserved_node returned None: sweep and return
Finish ==
  /\ pc = "loop"
  /\ iter < limit
  /\ None \in Selectable
  /\ observed' = Sweep
  /\ returned' = SweepResult(Sweep)
  /\ exit' = "sweep"
  /\ pc' = "done"
  /\ iter' = iter + 1
  /\ cleared_from' = "none"
  /\ UNCHANGED << params, wave, compatible, stack, observed_so_far,
                  sums_of_ones, sums_of_weights, sums_of_weight_log_weights,
                  limit, ban_calls, bad_bans, observe_calls, node, r >>

\* next_unobserved_node returned a node: observe(node)
ObserveStep ==
  /\ pc = "loop"
  /\ iter < limit
  /\ \E nd \in Selectable \ {None}, k \in 0 .. RDen - 1 :
       LET x == Sample(Solver, nd, k)
       IN  /\ node' = nd
           /\ r' = x
           /\ Store(Observe(Solver, nd, x))
           /\ observed_so_far' = IF heuristic = "ScanLine" THEN nd + 1
                                 ELSE observed_so_far
  /\ observe_calls' = observe_calls + 1
  /\ iter' = iter + 1
  /\ pc' = "propagate"
  /\ cleared_from' = "none"
  /\ UNCHANGED << params, observed, limit, returned, exit >>

\* one iteration of propagate's while loop
PropagateStep ==
  /\ pc = "propagate"
  /\ stack # << >>
  /\ Store(PropagatePop(Solver))
  /\ UNCHANGED << params, observed, observed_so_far, pc, limit, iter,
                  returned, exit, observe_calls, node, r, cleared_from >>

\* the stack is empty: propagate returns, run goes on or returns false
PropagateReturn ==
  /\ pc = "propagate"
  /\ stack = << >>
  /\ IF PropagateResult
     THEN pc' = "loop" /\ UNCHANGED << returned, exit >>
     ELSE pc' = "done" /\ returned' = FALSE /\ exit' = "propagate"
  /\ UNCHANGED << params, wave, compatible, observed, stack, observed_so_far,
                  sums_of_ones, sums_of_weights, sums_of_weight_log_weights,
                  limit, iter, ban_calls, bad_bans, observe_calls, node, r,
                  cleared_from >>

Next ==
  \/ RunClear
  \/ LimitExhausted
  \/ Finish
  \/ ObserveStep
  \/ PropagateStep
  \/ PropagateReturn

Spec == Init /\ [][Next]_vars

\* the same solver, constructed with the ScanLine heuristic
SpecScan == InitScan /\ [][Next]_vars

\* the same solver, constructed from the configurations of SymConfigs
SpecNew == InitNew /\ [][Next]_vars

\* ================================================================ claims
Live(i) == { t \in Variants : wave[i][t] }
Started == pc # "new"
Done == pc = "done"
AllObserved == \A i \in Cells : observed[i] # None

\* C5 (as claimed): in every state of a run, sums_of_ones[i] is the number
\* of variants live at cell i.
C5_SumsOfOnesCountLive ==
  Started => \A i \in Cells : sums_of_ones[i] = Cardinality(Live(i))

\* number of variants of ts live at cell j
LiveIn(j, ts) == Cardinality({ u \in ts : wave[j][u] })

\* C1 (as claimed): when run returns true with every cell observed, every
\* cell and each of its neighbors hold a pair of variants the propagator
\* allows.
C1_OutputLegal ==
  (Done /\ returned /\ AllObserved) =>
    \A i \in Cells, d \in Dirs :
      Neighbor(i, d) # None =>
        observed[Neighbor(i, d)] \in propagator[d][observed[i]]

\* C2 (as claimed): whenever run returns true, every cell is observed and
\* its observed variant is live.
C2_TrueMeansObserved ==
  (Done /\ returned) =>
    \A i \in Cells : observed[i] # None /\ wave[i][observed[i]]

\* C2 (amended): whenever run returns true from the final sweep, every cell
\* is observed and its observed variant is live.
C2_SweepTrueMeansObserved ==
  (Done /\ returned /\ exit = "sweep") =>
    \A i \in Cells : observed[i] # None /\ wave[i][observed[i]]

\* C2 witness: a run over several cells and variants that the sweep ended
\* with true.
C2_Witness ==
  /\ Done /\ returned /\ exit = "sweep"
  /\ num_tiles > 1 /\ width * height > 1
  /\ observe_calls > 1

\* C3 (as claimed): if some cell has no live variant when run returns, run
\* returns false.
C3_ContradictionFails ==
  (Done /\ \E i \in Cells : Live(i) = {}) => ~returned

\* C6 (as claimed): with the ban stack empty, the counter of a live (i, t)
\* in a direction d in which i has a neighbor is the number of variants of
\* P[opp(d)][t] live at neighbor(i, d).
C6_CompatibleCountsNeighborD ==
  (Started /\ stack = << >>) =>
    \A i \in Cells, t \in Variants, d \in Dirs :
      (wave[i][t] /\ Neighbor(i, d) # None) =>
        compatible[i][t][d] = LiveIn(Neighbor(i, d), propagator[Opp(d)][t])

\* C6 (amended): with the ban stack empty, the counter of a live (i, t) in a
\* direction d is the number of variants of P[opp(d)][t] live at
\* neighbor(i, opp(d)), for every d such that i has a neighbor in the
\* direction opp(d).
C6_CompatibleCountsNeighborOpp ==
  (Started /\ stack = << >>) =>
    \A i \in Cells, t \in Variants, d \in Dirs :
      (wave[i][t] /\ Neighbor(i, Opp(d)) # None) =>
        compatible[i][t][d] = LiveIn(Neighbor(i, Opp(d)), propagator[Opp(d)][t])

\* C6 witness: propagate has returned and left a live variant whose counter
\* is smaller than after clear and whose two neighbors in a row differ.
C6_Witness ==
  /\ pc = "loop" /\ stack = << >> /\ observe_calls > 0
  /\ \E i \in Cells, t \in Variants, d \in Dirs :
       /\ wave[i][t]
       /\ Neighbor(i, Opp(d)) # None
       /\ compatible[i][t][d] > 0
       /\ compatible[i][t][d] < Cardinality(propagator[Opp(d)][t])

\* C7 (as claimed): every counter of a variant that is not live is 0.
C7_DeadCountersZero ==
  \A i \in Cells, t \in Variants, d \in Dirs :
    ~wave[i][t] => compatible[i][t][d] = 0

\* C7 (amended): no counter of a variant that is not live is positive: ban
\* sets them to 0 and later propagation steps only decrement them.
C7_DeadCountersNotPositive ==
  \A i \in Cells, t \in Variants, d \in Dirs :
    ~wave[i][t] => compatible[i][t][d] <= 0

\* C7 witness: a banned variant one of whose counters was positive after
\* clear and has been decremented below 0 by propagation.
C7_Witness ==
  \E i \in Cells, t \in Variants, d \in Dirs :
    /\ ~wave[i][t]
    /\ Cardinality(propagator[Opp(d)][t]) > 0
    /\ compatible[i][t][d] < 0

\* C8 (as claimed), for the runs the limit does not cut short: if the run
\* ends with a cell whose only live variant t has an empty P[d][t] for a
\* direction d in which the cell has a neighbor, run returns false.
C8_EmptyListForcesFalse ==
  (Done /\ exit # "limit" /\
     \E i \in Cells, t \in Variants, d \in Dirs :
       /\ Live(i) = {t}
       /\ propagator[d][t] = {}
       /\ Neighbor(i, d) # None)
  => ~returned

\* Scenario S3: tiles A, B of symmetry X, {A, B} only, 3 x 1, non-periodic,
\* Entropy, a limit that lets the run finish.
S3Case ==
  /\ config = CfgS3 /\ width = 3 /\ height = 1 /\ ~periodic
  /\ heuristic = "Entropy"
  /\ limit >= 2

\* C9 (as claimed): in scenario S3 run returns false.
C9_S3ReturnsFalse == (S3Case /\ Done) => ~returned

\* C9 (amended): in scenario S3 run returns true from the sweep and the
\* observed row alternates A and B.
C9_S3ReturnsTrueAlternating ==
  (S3Case /\ Done) =>
    /\ returned /\ exit = "sweep"
    /\ \A i \in Cells : observed[i] \in {0, 1}
    /\ \A i \in 0 .. 1 : observed[i] # observed[i + 1]

\* C9 witness: scenario S3 has run to its end.
C9_Witness == S3Case /\ Done /\ observe_calls = 1 /\ observed[0] = 1

\* Scenario S2: tiles A, B of symmetry I, {A, B} and {B 1, A 1}, 4 x 1,
\* periodic, ScanLine, a limit that lets the run finish.
S2Case ==
  /\ config = CfgS2 /\ width = 4 /\ height = 1 /\ periodic
  /\ heuristic = "ScanLine"
  /\ limit >= 1

\* C10 (as claimed): in scenario S2 run returns true and every cell and its
\* east neighbor hold a pair the propagator allows.
C10_S2ReturnsTrueAlternating ==
  (S2Case /\ Done) =>
    /\ returned
    /\ AllObserved
    /\ \A i \in Cells : observed[Neighbor(i, 2)] \in propagator[2][observed[i]]

\* C10 (amended): in scenario S2 run returns false after the first observe:
\* on a periodic grid of height 1 every cell is its own north and south
\* neighbor, and no variant of A or B may sit above itself.
C10_S2ReturnsFalse ==
  (S2Case /\ Done) =>
    /\ ~returned
    /\ exit = "propagate"
    /\ observe_calls = 1
    /\ Live(0) = {}

\* C10 witness: scenario S2 has run to its end.
C10_Witness == S2Case /\ Done /\ node = 0 /\ r # None

\* The single-tile configuration: one tile of cardinality 1 and the pair
\* {A, A}, run with a limit of at least 1.
SingleTileCase == config = CfgS1 /\ limit >= 1

\* C11: for the single-tile configuration, on every grid, under every
\* heuristic and periodicity and with every limit >= 1, run returns true
\* with observed[i] = Some(0) at every cell, and it never calls observe.
C11_SingleTileAllZero ==
  (SingleTileCase /\ Done) =>
    /\ returned
    /\ \A i \in Cells : observed[i] = 0
    /\ observe_calls = 0

\* C11 witness: scenario S1, the single tile on the 2 x 2 grid, has run to
\* its end with observed = [0, 0, 0, 0].
C11_Witness ==
  /\ SingleTileCase /\ Done
  /\ width = 2 /\ height = 2
  /\ observed = [i \in 0 .. 3 |-> 0]

\* the state clear() is claimed to leave: the initial state of a run
ClearedState ==
  /\ wave = [i \in Cells |-> [t \in Variants |-> TRUE]]
  /\ compatible = [i \in Cells |-> [t \in Variants |->
                     [d \in Dirs |-> Cardinality(propagator[Opp(d)][t])]]]
  /\ sums_of_ones = [i \in Cells |-> num_tiles]
  /\ sums_of_weights = [i \in Cells |-> sum_of_weights]
  /\ sums_of_weight_log_weights = [i \in Cells |-> sum_of_weight_log_weights]
  /\ observed = [i \in Cells |-> None]
  /\ observed_so_far = 0
  /\ stack = << >>

\* C12: whatever state clear() runs on (a fresh solver, or one that a run
\* left after returning false, returning true from the sweep, or exhausting
\* its limit), the state it leaves is the same initial state: every variant
\* live, every counter |P[opp(d)][t]|, sums_of_ones = T, the weight sums
\* full, observed all None, observed_so_far = 0 and the ban stack empty.
C12_ClearIsFullReset == cleared_from # "none" => ClearedState

\* C12 witness: clear() has just run on a solver that a run left in a
\* contradiction, with a cell without live variant, on a grid of several
\* cells.
C12_Witness ==
  /\ cleared_from = "propagate"
  /\ pc = "loop" /\ iter = 0
  /\ width * height > 1 /\ num_tiles > 1

\* sum of w_t * ln(w_t), in thousandths, over the variants t live at cell i
LiveWeightLogSum(i) ==
  SumOver([t \in Variants |-> IF wave[i][t] THEN WLogW(weight[t]) ELSE 0],
          num_tiles - 1)

\* C13 (as claimed): for a tile set whose weights are not all 1, in every
\* state of a run sums_of_weight_log_weights[i] is the sum of w_t * ln(w_t)
\* over the variants t live at cell i.
C13_WeightLogSumsTrackWave ==
  (Started /\ \E t \in Variants : weight[t] # 1) =>
    \A i \in Cells : sums_of_weight_log_weights[i] = LiveWeightLogSum(i)

\* C14: for every configuration, every direction d and all variants t1,
\* t2: t2 is in P[d][t1] if and only if t1 is in P[opp(d)][t2]; and the
\* propagator is in every state the one new constructed.
C14_PropagatorSymmetric ==
  /\ \A d \in Dirs, t1 \in Variants, t2 \in Variants :
       t2 \in propagator[d][t1] <=> t1 \in propagator[Opp(d)][t2]
  /\ propagator = BuildPropagator(config)

\* C14 witness: a run has banned variants of a symmetry-F tile whose
\* propagator holds a pair in a direction without holding the reversed
\* pair in that same direction.
C14_Witness ==
  /\ Started /\ ban_calls > 0
  /\ num_tiles = 8
  /\ \E d \in Dirs, t1 \in Variants, t2 \in Variants :
       t2 \in propagator[d][t1] /\ t1 \notin propagator[d][t2]

\* C15 (as claimed): in every run, whatever the draws, every call
\* ban(i, t) is made in a state where wave[i][t] = true.
C15_BanOnlyLive == bad_bans = 0

\* C16 (as claimed): when propagate has drained the stack, it returns
\* false if and only if some cell of the grid has sums_of_ones[i] = 0.
C16_PropagateReportsContradiction ==
  (pc = "propagate" /\ stack = << >>) =>
    (~PropagateResult <=> \E i \in Cells : sums_of_ones[i] = 0)

\* C17 (as claimed): every observe step, whatever the draw, samples an
\* index r that is live at the selected node before the call, and leaves
\* exactly the variant r live at that node.
C17_ObserveCollapsesToLive ==
  [][ObserveStep =>
       /\ wave[node'][r']
       /\ { t \in Variants : wave'[node'][t] } = {r'}]_vars

\* C18 (as claimed): within a run the number of ban calls is at most
\* W * H * T, so that every propagate call drains the stack in at most
\* that many iterations.
C18_BanCallsBounded == ban_calls <= width * height * num_tiles

\* run is about to call next_unobserved_node
SelectionCalled == pc = "loop" /\ iter < limit

C20_ScanLineOrder ==
  [][(ObserveStep /\ heuristic = "ScanLine") =>
       /\ node' >= observed_so_far
       /\ sums_of_ones[node'] > 1
       /\ \A j \in Cells :
            (j >= observed_so_far /\ sums_of_ones[j] > 1) => node' <= j
       /\ observed_so_far' = node' + 1
       /\ node' > node]_vars

\* C20 witness: ScanLine has observed two cells and passed over a cell
\* between them that propagation had already collapsed.
C20_Witness ==
  /\ heuristic = "ScanLine"
  /\ observe_calls = 2
  /\ node >= 2
  /\ observed_so_far = node + 1

\* C21: when run has made limit iterations, each of them an observe and a
\* propagate that reported no contradiction, its next step is to return
\* true, with limit observe calls made and no observed[i] assigned; with
\* limit = 0 that is a return of true without any observe call.
C21_LimitExhaustionReturnsTrue ==
  [][(pc = "loop" /\ iter = limit) =>
       /\ pc' = "done" /\ returned' /\ exit' = "limit"
       /\ observe_calls' = limit
       /\ observed' = [i \in Cells |-> None]
       /\ wave' = wave]_vars

\* C21 witness: a run on several cells has returned after using up a limit
\* of at least two iterations while a cell was still uncollapsed.
C21_Witness ==
  /\ Done /\ exit = "limit" /\ returned
  /\ limit >= 2 /\ observe_calls = limit
  /\ \E i \in Cells : sums_of_ones[i] > 1

\* A variant of run's progress: the live (cell, variant) pairs weigh 3
\* each, the entries of the ban stack 1 each, and the position in run
\* breaks the ties.
Measure ==
  4 * (3 * Cardinality({ p \in Cells \X Variants : wave[p[1]][p[2]] })
       + Len(stack))
  + (CASE pc = "propagate" -> 2 [] pc = "loop" -> 1 [] OTHER -> 0)

\* C22: in any run, under every heuristic, periodicity and limit, at most
\* W * H observe steps are made; every observe leaves its cell with at most
\* one live variant; every step of run (a selection with its observe, an
\* iteration of propagate, a return) decreases a non-negative measure, so
\* run terminates whatever the limit; and a limit above W * H is never
\* what ends the run.
C22_ObserveStepsBounded ==
  [][/\ observe_calls' <= width * height
     /\ ObserveStep =>
          Cardinality({ t \in Variants : wave'[node'][t] }) <= 1
     /\ pc \in {"loop", "propagate"} => (Measure' < Measure /\ Measure' >= 0)
     /\ (pc' = "done" /\ limit' > width * height) => exit' # "limit"]_vars

\* C22 witness: a run with a limit above W * H has observed every cell of
\* a grid of at least three cells and returned from the sweep.
C22_Witness ==
  /\ Done /\ exit = "sweep"
  /\ width * height >= 3
  /\ limit > width * height
  /\ observe_calls = width * height

====
